---- MODULE Spec2Model ----
(***************************************************************************)
(* Model of the N-body simulation (src/NBodySimulation/main.cpp): the      *)
(* acceleration computer, the velocity-Verlet integrator, the barycenter   *)
(* corrector and the frame loop of main().                                 *)
(*                                                                         *)
(* Arithmetic.  The program computes in IEEE-754 binary64.  The model      *)
(* keeps the format's behaviour and shrinks its width: a `double` is a     *)
(* binary floating-point number with a significand of Precision bits       *)
(* (binary64 has 53), rounded to nearest, ties to even, after every single *)
(* operation, with infinities and NaN.  The exponent is unbounded, so the  *)
(* model has no overflow or underflow (the program's values are far from   *)
(* binary64's exponent limits), and the sign of zero is not kept.          *)
(***************************************************************************)
EXTENDS Integers, Sequences, FiniteSets, TLC

\* Significand width of the modelled double, in bits.
Precision == 12

(***************************************************************************)
(* double: [c, m, e].  c = "fin": the value m * 2^e, m = 0 and e = 0 for   *)
(* zero and 2^(Precision-1) <= |m| < 2^Precision otherwise, so that equal  *)
(* values are equal records.  c = "inf": m is the sign.  c = "nan".        *)
(***************************************************************************)
Fin(m, e) == [c |-> "fin", m |-> m, e |-> e]
Zero == Fin(0, 0)
NaN == [c |-> "nan", m |-> 0, e |-> 0]
Inf(s) == [c |-> "inf", m |-> s, e |-> 0]

Abs(n) == IF n < 0 THEN -n ELSE n
Sgn(n) == IF n < 0 THEN -1 ELSE IF n > 0 THEN 1 ELSE 0

\* the number of binary digits of n, 0 <= n < 2^31
BitLen(n) ==
    IF n >= 2^30 THEN 31
    ELSE CHOOSE k \in 0..30 : n < 2^k /\ (k = 0 \/ 2^(k-1) <= n)

\* a / 2^k for a >= 0, k >= 1, rounded to nearest, ties to even
RoundShift(a, k) ==
    LET q == a \div (2^k)
        r == a % (2^k)
        half == 2^(k-1)
    IN IF r > half \/ (r = half /\ q % 2 = 1) THEN q + 1 ELSE q

\* the p-bit number nearest to the exact value n * 2^e
FlP(n, e, p) ==
    IF n = 0 THEN Zero
    ELSE LET a == Abs(n)
             L == BitLen(a)
         IN IF L <= p
            THEN Fin(Sgn(n) * a * 2^(p - L), e - (p - L))
            ELSE LET q == RoundShift(a, L - p)
                 IN IF q = 2^p
                    THEN Fin(Sgn(n) * 2^(p-1), e + (L - p) + 1)
                    ELSE Fin(Sgn(n) * q, e + (L - p))

\* the double nearest to the exact value n * 2^e
Fl(n, e) == FlP(n, e, Precision)

FromInt(n) == Fl(n, 0)

dNeg(x) == [x EXCEPT !.m = -x.m]

dMul(x, y) ==
    IF x.c = "nan" \/ y.c = "nan" THEN NaN
    ELSE IF x.c = "inf" \/ y.c = "inf"
         THEN IF x.m = 0 \/ y.m = 0 THEN NaN ELSE Inf(Sgn(x.m) * Sgn(y.m))
         ELSE Fl(x.m * y.m, x.e + y.e)

dAdd(x, y) ==
    IF x.c = "nan" \/ y.c = "nan" THEN NaN
    ELSE IF x.c = "inf"
         THEN IF y.c = "inf" /\ y.m # x.m THEN NaN ELSE x
    ELSE IF y.c = "inf" THEN y
    ELSE IF x.m = 0 THEN y
    ELSE IF y.m = 0 THEN x
    ELSE LET hi == IF x.e >= y.e THEN x ELSE y
             lo == IF x.e >= y.e THEN y ELSE x
             d == hi.e - lo.e
         IN \* lo is below a quarter of hi's last place: the sum rounds to hi
            IF d > Precision + 1 THEN hi
            ELSE Fl(hi.m * 2^d + lo.m, lo.e)

dSub(x, y) == dAdd(x, dNeg(y))

dDiv(x, y) ==
    IF x.c = "nan" \/ y.c = "nan" THEN NaN
    ELSE IF x.c = "inf"
         THEN IF y.c = "inf" THEN NaN
              ELSE Inf(IF y.m < 0 THEN -x.m ELSE x.m)
    ELSE IF y.c = "inf" THEN Zero
    ELSE IF y.m = 0
         THEN IF x.m = 0 THEN NaN ELSE Inf(Sgn(x.m))
    ELSE IF x.m = 0 THEN Zero
    ELSE LET num == Abs(x.m) * 2^(Precision + 2)
             q == num \div Abs(y.m)
             sticky == IF num % Abs(y.m) = 0 THEN 0 ELSE 1
         IN Fl(Sgn(x.m) * Sgn(y.m) * (2 * q + sticky),
               x.e - y.e - (Precision + 2) - 1)

\* r exceeds the square root of n, 0 <= n < 2^31 (46340^2 < 2^31 < 46341^2)
Above(r, n) == r > 46340 \/ r * r > n

\* the digit d with r0 + d * step <= sqrt(n) < r0 + (d + 1) * step
SqrtDigit(n, r0, step) ==
    CHOOSE d \in 0..35 :
        ~Above(r0 + d * step, n) /\ Above(r0 + (d + 1) * step, n)

\* the integer square root of n, 0 <= n < 2^31, digit by digit in base 36
Isqrt(n) ==
    LET a == 1296 * SqrtDigit(n, 0, 1296)
        b == a + 36 * SqrtDigit(n, a, 36)
    IN b + SqrtDigit(n, b, 1)

dSqrt(x) ==
    IF x.c = "nan" THEN NaN
    ELSE IF x.m < 0 THEN NaN
    ELSE IF x.c = "inf" THEN x
    ELSE IF x.m = 0 THEN Zero
    ELSE LET s == IF (x.e - (Precision + 2)) % 2 = 0
                  THEN Precision + 2 ELSE Precision + 3
             n == x.m * 2^s
             r == Isqrt(n)
             sticky == IF r * r = n THEN 0 ELSE 1
         IN Fl(2 * r + sticky, ((x.e - s) \div 2) - 1)

\* x < y on doubles (false when either is NaN)
dLess(x, y) ==
    IF x.c = "nan" \/ y.c = "nan" THEN FALSE
    ELSE IF x.c = "inf" THEN x.m < 0 /\ ~(y.c = "inf" /\ y.m < 0)
    ELSE IF y.c = "inf" THEN y.m > 0
    ELSE IF Sgn(x.m) # Sgn(y.m) THEN Sgn(x.m) < Sgn(y.m)
    ELSE IF x.m = 0 THEN FALSE
    ELSE IF x.m > 0 THEN x.e < y.e \/ (x.e = y.e /\ x.m < y.m)
    ELSE x.e > y.e \/ (x.e = y.e /\ x.m < y.m)

dAbs(x) == [x EXCEPT !.m = Abs(x.m)]
dLeq(x, y) == dLess(x, y) \/ (x = y /\ x.c # "nan")
IsFinite(x) == x.c = "fin"

(***************************************************************************)
(* Program constants (main.cpp:14-16), each the double nearest to the      *)
(* literal of the source.                                                  *)
(***************************************************************************)
M_PI == Fl(3294199, -20)            \* 3.14159265...
G == dMul(dMul(FromInt(4), M_PI), M_PI)
dt == Fl(1073742, -31)              \* 0.0005
\* no regularisation of the distance
EPS_zero == Zero
EPS == Fl(1801440, -54)             \* 1e-10
Half == Fl(1, -1)                   \* 0.5
One == FromInt(1)

(***************************************************************************)
(* Vec3 and its operators (main.cpp:21-43)                                 *)
(***************************************************************************)
Vec(x, y, z) == [x |-> x, y |-> y, z |-> z]
V0 == Vec(Zero, Zero, Zero)
VAdd(a, b) == Vec(dAdd(a.x, b.x), dAdd(a.y, b.y), dAdd(a.z, b.z))
VSub(a, b) == Vec(dSub(a.x, b.x), dSub(a.y, b.y), dSub(a.z, b.z))
VMul(a, scalar) == Vec(dMul(a.x, scalar), dMul(a.y, scalar), dMul(a.z, scalar))
VDiv(a, scalar) == Vec(dDiv(a.x, scalar), dDiv(a.y, scalar), dDiv(a.z, scalar))
norm(v) == dSqrt(dAdd(dAdd(dMul(v.x, v.x), dMul(v.y, v.y)), dMul(v.z, v.z)))

(***************************************************************************)
(* computeAccelerations (main.cpp:57-81)                                   *)
(***************************************************************************)
\* lines 64-71: the force vector of the pair (bi, bj)
PairForce(bi, bj) ==
    LET r == VSub(bj.position, bi.position)
        dist == dAdd(norm(r), EPS)
        invDist3 == dDiv(One, dMul(dMul(dist, dist), dist))
    IN VMul(r, dMul(G, invDist3))

\* ApplyPair that leaves out a pair with a massless body
ApplyPair_skipMassless(bs, i, j) ==
    LET force == PairForce(bs[i], bs[j])
    IN IF bs[i].mass = Zero \/ bs[j].mass = Zero THEN bs
       ELSE [bs EXCEPT
          ![i].acceleration = VAdd(bs[i].acceleration, VMul(force, bs[j].mass)),
          ![j].acceleration = VSub(bs[j].acceleration, VMul(force, bs[i].mass))]

\* ApplyPair with each body's own mass on its side of the pair
ApplyPair_ownMass(bs, i, j) ==
    LET force == PairForce(bs[i], bs[j])
    IN [bs EXCEPT
          ![i].acceleration = VAdd(bs[i].acceleration, VMul(force, bs[i].mass)),
          ![j].acceleration = VSub(bs[j].acceleration, VMul(force, bs[j].mass))]

\* lines 64-78: one iteration of the inner loop
ApplyPair(bs, i, j) ==
    LET force == PairForce(bs[i], bs[j])
    IN [bs EXCEPT
          ![i].acceleration = VAdd(bs[i].acceleration, VMul(force, bs[j].mass)),
          ![j].acceleration = VSub(bs[j].acceleration, VMul(force, bs[i].mass))]

\* lines 62-79: the inner loop of body i, from j on
RECURSIVE InnerLoop(_, _, _)
InnerLoop(bs, i, j) ==
    IF j > Len(bs) THEN bs ELSE InnerLoop(ApplyPair(bs, i, j), i, j + 1)

\* lines 61-80: the outer loop, from body i on
RECURSIVE PairLoop(_, _)
PairLoop(bs, i) ==
    IF i > Len(bs) THEN bs ELSE PairLoop(InnerLoop(bs, i, i + 1), i + 1)

computeAccelerations(bs) ==
    PairLoop([k \in 1..Len(bs) |-> [bs[k] EXCEPT !.acceleration = V0]], 1)

(***************************************************************************)
(* velocityVerlet (main.cpp:86-109).  oldAcc is the function's static      *)
(* vector: it is passed in and handed back.                                *)
(***************************************************************************)
\* line 88: std::vector::resize, new elements value-initialised
resize(oa, n) == [k \in 1..n |-> IF k <= Len(oa) THEN oa[k] ELSE V0]

\* the velocity update weighted with the whole step
HalfDt_whole == dt

HalfDt == dMul(Half, dt)             \* 0.5 * dt
HalfDtDt == dMul(dMul(Half, dt), dt) \* 0.5 * dt * dt

\* SavePosition that leaves oldAcc[i] as the last call left it
SavePosition_noSave(bs, oa, i) ==
    [bodies |-> [bs EXCEPT ![i].position =
                    VAdd(VAdd(bs[i].position, VMul(bs[i].velocity, dt)),
                         VMul(bs[i].acceleration, HalfDtDt))],
     oldAcc |-> oa]

\* lines 92-97: body i of the first loop
SavePosition(bs, oa, i) ==
    [bodies |-> [bs EXCEPT ![i].position =
                    VAdd(VAdd(bs[i].position, VMul(bs[i].velocity, dt)),
                         VMul(bs[i].acceleration, HalfDtDt))],
     oldAcc |-> [oa EXCEPT ![i] = bs[i].acceleration]]

RECURSIVE PositionLoop(_, _, _)
PositionLoop(bs, oa, i) ==
    IF i > Len(bs) THEN [bodies |-> bs, oldAcc |-> oa]
    ELSE LET st == SavePosition(bs, oa, i)
         IN PositionLoop(st.bodies, st.oldAcc, i + 1)

\* the velocity update of explicit Euler: the old acceleration over all of dt
FinishVelocity_euler(bs, oa, i) ==
    [bs EXCEPT ![i].velocity = VAdd(bs[i].velocity, VMul(oa[i], dt))]

\* lines 105-107: body i of the second loop
FinishVelocity(bs, oa, i) ==
    [bs EXCEPT ![i].velocity =
        VAdd(bs[i].velocity, VMul(VAdd(oa[i], bs[i].acceleration), HalfDt))]

RECURSIVE VelocityLoop(_, _, _)
VelocityLoop(bs, oa, i) ==
    IF i > Len(bs) THEN bs
    ELSE VelocityLoop(FinishVelocity(bs, oa, i), oa, i + 1)

\* velocityVerlet that recomputes the accelerations before it moves the bodies
velocityVerlet_early(bs, oa) ==
    LET st == PositionLoop(computeAccelerations(bs), resize(oa, Len(bs)), 1)
    IN [bodies |-> VelocityLoop(st.bodies, st.oldAcc, 1),
        oldAcc |-> st.oldAcc]

velocityVerlet(bs, oa) ==
    LET st == PositionLoop(bs, resize(oa, Len(bs)), 1)
    IN [bodies |-> VelocityLoop(computeAccelerations(st.bodies), st.oldAcc, 1),
        oldAcc |-> st.oldAcc]

(***************************************************************************)
(* enforceBarycenter (main.cpp:144-158)                                    *)
(***************************************************************************)
\* lines 146-152: the loop from body st.k on, st.p and st.m the sums so far
RECURSIVE SumLoop(_, _, _)
SumLoop(bs, n, st) ==
    IF st.k > n THEN st
    ELSE SumLoop(bs, n,
            [k |-> st.k + 1,
             p |-> VAdd(st.p, VMul(bs[st.k].velocity, bs[st.k].mass)),
             m |-> dAdd(st.m, bs[st.k].mass)])

\* lines 146-152 on the first n bodies
Sums(bs, n) == SumLoop(bs, n, [k |-> 1, p |-> V0, m |-> Zero])

TotalMomentum(bs, n) == Sums(bs, n).p

TotalMass(bs, n) == Sums(bs, n).m

\* the correction divided by the number of bodies, not by their mass
Correction_count(bs) == VDiv(TotalMomentum(bs, Len(bs)), FromInt(Len(bs)))

Correction(bs) == VDiv(TotalMomentum(bs, Len(bs)), TotalMass(bs, Len(bs)))

\* enforceBarycenter that adds the correction
enforceBarycenter_adds(bs) ==
    LET correction == Correction(bs)
    IN [k \in 1..Len(bs) |->
          [bs[k] EXCEPT !.velocity = VAdd(bs[k].velocity, correction)]]

enforceBarycenter(bs) ==
    LET correction == Correction(bs)
    IN [k \in 1..Len(bs) |->
          [bs[k] EXCEPT !.velocity = VSub(bs[k].velocity, correction)]]

(***************************************************************************)
(* float and the rendering side (main.cpp:112-121, 171-182).  A float is   *)
(* the same format with a narrower significand; as for binary32 against    *)
(* binary64, a double result rounds to float as the exact result would.    *)
(***************************************************************************)
FloatPrecision == (Precision - 2) \div 2
ToFloat(x) == IF x.c = "fin" THEN FlP(x.m, x.e, FloatPrecision) ELSE x
fAdd(x, y) == ToFloat(dAdd(x, y))
fMul(x, y) == ToFloat(dMul(x, y))
fDiv(x, y) == ToFloat(dDiv(x, y))

Vector2f(x, y) == [x |-> x, y |-> y]

\* line 116-121
toScreen(p, center, scale) ==
    Vector2f(fAdd(center.x, ToFloat(dMul(p.x, scale))),
             fAdd(center.y, ToFloat(dMul(p.y, scale))))

\* lines 171-174: CENTER from the window size
CenterOf(size) ==
    Vector2f(fMul(ToFloat(FromInt(size[1])), ToFloat(Half)),
             fMul(ToFloat(FromInt(size[2])), ToFloat(Half)))

Min(a, b) == IF b < a THEN b ELSE a

\* lines 177-182: SCALE from the window size; 0.45f and 30.1f
ScaleOf(size) ==
    fDiv(fMul(ToFloat(FromInt(Min(size[1], size[2]))), ToFloat(Fl(471859, -20))),
         ToFloat(Fl(986317, -15)))

MAX_TRAIL == 1500

\* trail management that also moves the body to the point it recorded
PushTrail_snap(b, center, scale) ==
    LET t == Append(b.trail, toScreen(b.position, center, scale))
    IN [b EXCEPT !.trail = IF Len(t) > MAX_TRAIL THEN Tail(t) ELSE t,
                 !.position = Vec(t[Len(t)].x, t[Len(t)].y, Zero)]

\* lines 228-233: trail management of one body
PushTrail(b, center, scale) ==
    LET t == Append(b.trail, toScreen(b.position, center, scale))
    IN [b EXCEPT !.trail = IF Len(t) > MAX_TRAIL THEN Tail(t) ELSE t]

\* lines 263-267: the body's shape is placed at its screen position
PlaceShape(b, center, scale) ==
    [b EXCEPT !.shape = toScreen(b.position, center, scale)]

(***************************************************************************)
(* Construction of the system (main.cpp:124-140, 187-208)                  *)
(***************************************************************************)
\* the decimal literal n * 10^-k, to within rounding
Dec(n, k) == dDiv(FromInt(n), FromInt(10^k))

\* lines 124-140; `Body b;` leaves the acceleration uninitialised: uninit
makePlanet(mass, radius, uninit) ==
    [mass |-> mass,
     position |-> Vec(radius, Zero, Zero),
     velocity |-> Vec(Zero, dSqrt(dDiv(G, radius)), Zero),
     acceleration |-> uninit,
     shape |-> Vector2f(Zero, Zero),
     trail |-> <<>>]

\* lines 190-198
Sun(mass, uninit) ==
    [mass |-> mass,
     position |-> V0,
     velocity |-> V0,
     acceleration |-> uninit,
     shape |-> Vector2f(Zero, Zero),
     trail |-> <<>>]

\* lines 198-208: the Sun, then one makePlanet per <<mass, radius>>
System(sunMass, planets, uninit) ==
    <<Sun(sunMass, uninit)>> \o
    [k \in 1..Len(planets) |-> makePlanet(planets[k][1], planets[k][2], uninit)]

\* lines 201-208: the planets of main()
SolarPlanets ==
    << <<Dec(166, 9), Dec(39, 2)>>,   <<Dec(245, 8), Dec(72, 2)>>,
       <<Dec(300, 8), Dec(100, 2)>>,  <<Dec(323, 9), Dec(152, 2)>>,
       <<Dec(954, 6), Dec(520, 2)>>,  <<Dec(286, 6), Dec(958, 2)>>,
       <<Dec(436, 7), Dec(192, 1)>>,  <<Dec(515, 7), Dec(301, 1)>> >>

(***************************************************************************)
(* Inputs.  main() builds one fixed system; the operations take any body   *)
(* list, so the runs start from main()'s system and from every system of a *)
(* Sun and up to MaxPlanets planets of a small catalog.                    *)
(***************************************************************************)
MaxPlanets == 2
MaxTicks == 2

SeqsUpTo(S, n) == UNION {[1..k -> S] : k \in 0..n}

\* what an uninitialised Vec3 may hold
Uninit == {V0, Vec(NaN, One, dNeg(One))}

\* <<mass, radius>>: the Earth of main(), and two heavy companions, one of
\* them on the Earth's orbit
Catalog ==
    { <<Dec(300, 8), Dec(100, 2)>>, <<Dec(3, 1), Dec(100, 2)>>,
      <<Dec(7, 1), Dec(25, 1)>> }

\* the same with massless bodies
AnyCatalog == Catalog \cup { <<Zero, Dec(100, 2)>>, <<Zero, Dec(25, 1)>> }

Systems ==
    {System(One, SolarPlanets, u) : u \in Uninit} \cup
    {System(One, ps, u) : ps \in SeqsUpTo(Catalog, MaxPlanets), u \in Uninit}

AnySystems ==
    {<<>>} \cup
    {System(sm, ps, u) : sm \in {Zero, One},
                         ps \in SeqsUpTo(AnyCatalog, MaxPlanets), u \in Uninit}

\* sf::VideoMode::getDesktopMode()
DesktopModes == {<<1920, 1080>>}

(***************************************************************************)
(* main() (main.cpp:160-273) as a state machine.  pc is the line main() is *)
(* about to execute.  nsteps, nbary and ticks count the calls of           *)
(* velocityVerlet, of enforceBarycenter and the frames begun.              *)
(***************************************************************************)
VARIABLES bodies, oldAcc, pc, i, windowOpen, CENTER, SCALE,
          nsteps, nbary, ticks, two, orbit, hoard

vars == <<bodies, oldAcc, pc, i, windowOpen, CENTER, SCALE,
          nsteps, nbary, ticks, two, orbit, hoard>>

\* main() runs one system in one thread: the two-run harness is off
TwoOff == [on |-> FALSE]

\* no orbit is being measured
OrbitOff == [on |-> FALSE]

\* the HOARD game (src/unnamed/part_000) is not running
HoardOff == [on |-> FALSE]

InitWith(systems) ==
    /\ bodies \in systems
    /\ oldAcc = <<>>
    /\ pc = "L210"
    /\ i = 0
    /\ windowOpen = TRUE
    /\ \E size \in DesktopModes :
          CENTER = CenterOf(size) /\ SCALE = ScaleOf(size)
    /\ nsteps = 0
    /\ nbary = 0
    /\ ticks = 0
    /\ two = TwoOff
    /\ orbit = OrbitOff
    /\ hoard = HoardOff

Init == InitWith(Systems)
InitAny == InitWith(AnySystems)

\* line 210
InitialAccelerations ==
    /\ pc = "L210"
    /\ bodies' = computeAccelerations(bodies)
    /\ pc' = "L211"
    /\ UNCHANGED <<oldAcc, i, windowOpen, CENTER, SCALE, nsteps, nbary, ticks, two, orbit, hoard>>

\* line 211
InitialBarycenter ==
    /\ pc = "L211"
    /\ bodies' = enforceBarycenter(bodies)
    /\ nbary' = nbary + 1
    /\ pc' = "L215"
    /\ UNCHANGED <<oldAcc, i, windowOpen, CENTER, SCALE, nsteps, ticks, two, orbit, hoard>>

\* line 215: while (window.isOpen())
LoopTest ==
    /\ pc = "L215"
    /\ pc' = IF windowOpen THEN "L217" ELSE "L272"
    /\ UNCHANGED <<bodies, oldAcc, i, windowOpen, CENTER, SCALE,
                   nsteps, nbary, ticks, two, orbit, hoard>>

\* lines 217-221: the events of this frame; a Closed event closes the
\* window, and the frame goes on.  The last frame the model follows closes.
PollEvents ==
    /\ pc = "L217"
    /\ \E closed \in (IF ticks + 1 >= MaxTicks THEN {TRUE} ELSE BOOLEAN) :
          windowOpen' = (windowOpen /\ ~closed)
    /\ ticks' = ticks + 1
    /\ i' = 0
    /\ pc' = "L224"
    /\ UNCHANGED <<bodies, oldAcc, CENTER, SCALE, nsteps, nbary, two, orbit, hoard>>

\* the sub-step loop leaving after four iterations
SubStep_four ==
    /\ pc = "L224"
    /\ i < 4
    /\ LET st == velocityVerlet(bodies, oldAcc)
       IN bodies' = st.bodies /\ oldAcc' = st.oldAcc
    /\ i' = i + 1
    /\ nsteps' = nsteps + 1
    /\ pc' = IF i + 1 < 4 THEN "L224" ELSE "L228"
    /\ UNCHANGED <<windowOpen, CENTER, SCALE, nbary, ticks, two, orbit, hoard>>

\* lines 224-225: one iteration of for (int i = 0; i < 5; ++i)
SubStep ==
    /\ pc = "L224"
    /\ i < 5
    /\ LET st == velocityVerlet(bodies, oldAcc)
       IN bodies' = st.bodies /\ oldAcc' = st.oldAcc
    /\ i' = i + 1
    /\ nsteps' = nsteps + 1
    /\ pc' = IF i + 1 < 5 THEN "L224" ELSE "L228"
    /\ UNCHANGED <<windowOpen, CENTER, SCALE, nbary, ticks, two, orbit, hoard>>

\* lines 228-233
TrailManagement ==
    /\ pc = "L228"
    /\ bodies' = [k \in 1..Len(bodies) |-> PushTrail(bodies[k], CENTER, SCALE)]
    /\ pc' = "L235"
    /\ UNCHANGED <<oldAcc, i, windowOpen, CENTER, SCALE, nsteps, nbary, ticks, two, orbit, hoard>>

\* a frame that re-centres the system before it draws
Render_recentre ==
    /\ pc = "L235"
    /\ bodies' = [k \in 1..Len(bodies) |->
                    PlaceShape(enforceBarycenter(bodies)[k], CENTER, SCALE)]
    /\ nbary' = nbary + 1
    /\ pc' = "L215"
    /\ UNCHANGED <<oldAcc, i, windowOpen, CENTER, SCALE, nsteps, ticks, two, orbit, hoard>>

\* lines 235-269
Render ==
    /\ pc = "L235"
    /\ bodies' = [k \in 1..Len(bodies) |-> PlaceShape(bodies[k], CENTER, SCALE)]
    /\ pc' = "L215"
    /\ UNCHANGED <<oldAcc, i, windowOpen, CENTER, SCALE, nsteps, nbary, ticks, two, orbit, hoard>>

Next ==
    \/ InitialAccelerations
    \/ InitialBarycenter
    \/ LoopTest
    \/ PollEvents
    \/ SubStep
    \/ TrailManagement
    \/ Render

Spec == Init /\ [][Next]_vars
SpecAny == InitAny /\ [][Next]_vars

\* the catalogue with a massless body on the Earth's orbit
MasslessCatalog == Catalog \cup { <<Zero, Dec(100, 2)>> }

\* the Sun with planets of which any may be massless, and no body at all
MasslessSystems ==
    {<<>>} \cup
    {System(One, ps, V0) : ps \in SeqsUpTo(MasslessCatalog, MaxPlanets)}

InitMassless == InitWith(MasslessSystems)
SpecMassless == InitMassless /\ [][Next]_vars

(***************************************************************************)
(* Two independent systems stepped in one process by two threads.  Each    *)
(* thread calls velocityVerlet on its own system; the static oldAcc of     *)
(* line 87 is the one buffer of both.  A thread's step is one statement of *)
(* velocityVerlet: the resize, an iteration of the first loop, the call of *)
(* computeAccelerations, an iteration of the second loop.  Both systems    *)
(* have the same number of bodies, so that the resize never reallocates    *)
(* and every index stays inside the buffer.  writer[k] is the thread that  *)
(* wrote oldAcc[k] last, foreign whether a thread has read an entry that   *)
(* the other one wrote.                                                    *)
(***************************************************************************)
MaxTwoSteps == 2

\* a system as main() leaves it at line 215
Prepared(bs) == enforceBarycenter(computeAccelerations(bs))

TwoSystems == {Prepared(System(One, ps, V0)) : ps \in [1..1 -> Catalog]}

InitTwo ==
    /\ bodies = <<>>
    /\ oldAcc = <<>>
    /\ pc = "two"
    /\ i = 0
    /\ windowOpen = FALSE
    /\ CENTER = Vector2f(Zero, Zero)
    /\ SCALE = Zero
    /\ nsteps = 0
    /\ nbary = 0
    /\ ticks = 0
    /\ orbit = OrbitOff
    /\ hoard = HoardOff
    /\ \E a \in TwoSystems, b \in TwoSystems :
          two = [on |-> TRUE,
                 bodies |-> <<a, b>>,
                 start |-> <<a, b>>,
                 pc |-> <<"idle", "idle">>,
                 k |-> <<0, 0>>,
                 done |-> <<0, 0>>,
                 writer |-> <<>>,
                 foreign |-> FALSE]

mainVars == <<bodies, pc, i, windowOpen, CENTER, SCALE, nsteps, nbary, ticks,
              orbit, hoard>>

\* lines 87-88: thread t enters velocityVerlet and resizes the buffer
TwoCall(t) ==
    /\ two.on
    /\ two.pc[t] = "idle"
    /\ two.done[t] < MaxTwoSteps
    /\ LET n == Len(two.bodies[t])
       IN /\ oldAcc' = resize(oldAcc, n)
          /\ two' = [two EXCEPT
                       !.pc[t] = "L91",
                       !.k[t] = 1,
                       !.writer = [k \in 1..n |->
                                     IF k <= Len(two.writer)
                                     THEN two.writer[k] ELSE 0]]
    /\ UNCHANGED mainVars

\* lines 91-98: thread t runs one iteration of the first loop
TwoSave(t) ==
    /\ two.on
    /\ two.pc[t] = "L91"
    /\ LET k == two.k[t]
           st == SavePosition(two.bodies[t], oldAcc, k)
       IN /\ oldAcc' = st.oldAcc
          /\ two' = [two EXCEPT
                       !.bodies[t] = st.bodies,
                       !.writer[k] = t,
                       !.k[t] = k + 1,
                       !.pc[t] = IF k + 1 <= Len(two.bodies[t])
                                 THEN "L91" ELSE "L101"]
    /\ UNCHANGED mainVars

\* line 101: thread t recomputes the accelerations of its system
TwoCompute(t) ==
    /\ two.on
    /\ two.pc[t] = "L101"
    /\ two' = [two EXCEPT
                 !.bodies[t] = computeAccelerations(two.bodies[t]),
                 !.k[t] = 1,
                 !.pc[t] = "L104"]
    /\ UNCHANGED <<oldAcc, mainVars>>

\* lines 104-108: thread t runs one iteration of the second loop
TwoFinish(t) ==
    /\ two.on
    /\ two.pc[t] = "L104"
    /\ LET k == two.k[t]
           last == k + 1 > Len(two.bodies[t])
       IN two' = [two EXCEPT
                    !.bodies[t] = FinishVelocity(two.bodies[t], oldAcc, k),
                    !.foreign = two.foreign \/ two.writer[k] # t,
                    !.k[t] = k + 1,
                    !.pc[t] = IF last THEN "idle" ELSE "L104",
                    !.done[t] = IF last THEN two.done[t] + 1 ELSE two.done[t]]
    /\ UNCHANGED <<oldAcc, mainVars>>

NextTwo ==
    \E t \in {1, 2} :
        \/ TwoCall(t)
        \/ TwoSave(t)
        \/ TwoCompute(t)
        \/ TwoFinish(t)

SpecTwo == InitTwo /\ [][NextTwo]_vars

\* the system bs after n velocityVerlet calls of a run of its own
RECURSIVE AloneAfter(_, _)
AloneAfter(bs, n) ==
    IF n = 0 THEN bs
    ELSE velocityVerlet(AloneAfter(bs, n - 1), <<>>).bodies

(***************************************************************************)
(* Measures used by the properties                                         *)
(***************************************************************************)
VNeg(a) == Vec(dNeg(a.x), dNeg(a.y), dNeg(a.z))
Norm1(v) == dAdd(dAdd(dAbs(v.x), dAbs(v.y)), dAbs(v.z))
Accelerations(bs) == [k \in 1..Len(bs) |-> bs[k].acceleration]
Velocities(bs) == [k \in 1..Len(bs) |-> bs[k].velocity]
Physics(bs) ==
    [k \in 1..Len(bs) |->
        <<bs[k].mass, bs[k].position, bs[k].velocity, bs[k].acceleration>>]

\* the unit roundoff of the double: half the gap between 1 and the next double
Roundoff == Fl(1, -Precision)

\* sum of mass_i * |velocity_i|, the size of the terms of the momentum sum
RECURSIVE ScaleLoop(_, _, _)
ScaleLoop(bs, n, st) ==
    IF st.k > n THEN st.s
    ELSE ScaleLoop(bs, n,
            [k |-> st.k + 1,
             s |-> dAdd(st.s, dMul(dAbs(bs[st.k].mass),
                                   Norm1(bs[st.k].velocity)))])

MomentumScale(bs, n) == ScaleLoop(bs, n, [k |-> 1, s |-> Zero])

\* |a - b| <= k roundoff units of the larger of |a|, |b|
CloseTo(a, b, k) ==
    \/ a = b /\ a.c = "fin"
    \/ /\ a.c = "fin" /\ b.c = "fin"
       /\ LET big == IF dLess(dAbs(a), dAbs(b)) THEN dAbs(b) ELSE dAbs(a)
          IN dLeq(dAbs(dSub(a, b)), dMul(dMul(FromInt(k), Roundoff), big))

VCloseTo(a, b, k) ==
    CloseTo(a.x, b.x, k) /\ CloseTo(a.y, b.y, k) /\ CloseTo(a.z, b.z, k)

Initialised == pc \notin {"L210", "L211"}

(***************************************************************************)
(* Properties                                                              *)
(***************************************************************************)

\* C3: acceleration consistency.  Once line 210 has run, and so at entry to
\* every velocityVerlet call and after each of them, every body's
\* acceleration is the one computeAccelerations yields from the current
\* positions and masses.
C3_AccelerationConsistency ==
    pc # "L210" =>
        Accelerations(bodies) = Accelerations(computeAccelerations(bodies))

\* a velocityVerlet call is about to run on bodies that attract each other
\* and that earlier steps have moved
C3_Witness ==
    /\ pc = "L224"
    /\ nsteps >= 6
    /\ Len(bodies) >= 3
    /\ \A k \in 1..Len(bodies) : bodies[k].acceleration # V0

\* C4: momentum conservation within numerical tolerance.  After
\* enforceBarycenter, and after any number of velocityVerlet steps, the
\* total momentum (summed as enforceBarycenter sums it) is zero to within
\* (n + 3 + 2 * steps) roundoff units of the sum of mass_i * |velocity_i|,
\* n the number of bodies.
C4_MomentumConserved ==
    Initialised =>
        LET n == Len(bodies)
        IN dLeq(Norm1(TotalMomentum(bodies, n)),
                dMul(dMul(FromInt(n + 3 + 2 * nsteps), Roundoff),
                     MomentumScale(bodies, n)))

\* ten steps after the correction, on bodies that exchange momentum
C4_Witness ==
    /\ pc = "L228"
    /\ nsteps = 10
    /\ Len(bodies) >= 3
    /\ \A k \in 1..Len(bodies) : bodies[k].velocity.x # Zero

\* C5 as stated: for every pair, alone in computeAccelerations,
\* mass_i * a_i == -(mass_j * a_j) exactly.
C5_ThirdLawExact ==
    \A a \in 1..Len(bodies) : \A b \in (a + 1)..Len(bodies) :
        LET pair == computeAccelerations(<<bodies[a], bodies[b]>>)
        IN VMul(pair[1].acceleration, bodies[a].mass)
             = VNeg(VMul(pair[2].acceleration, bodies[b].mass))

\* C5 amended: for every pair, alone in computeAccelerations, mass_i * a_i
\* and -(mass_j * a_j) agree to within 5 roundoff units, and exactly when
\* one of the two masses is 1.
C5_ThirdLawRounded ==
    \A a \in 1..Len(bodies) : \A b \in (a + 1)..Len(bodies) :
        LET pair == computeAccelerations(<<bodies[a], bodies[b]>>)
            left == VMul(pair[1].acceleration, bodies[a].mass)
            right == VNeg(VMul(pair[2].acceleration, bodies[b].mass))
        IN /\ VCloseTo(left, right, 5)
           /\ (bodies[a].mass = One \/ bodies[b].mass = One) => left = right

\* a pair of planets that attract each other and whose two products differ
C5_Witness ==
    /\ pc = "L224"
    /\ nsteps >= 1
    /\ \E a \in 2..Len(bodies) : \E b \in (a + 1)..Len(bodies) :
        LET pair == computeAccelerations(<<bodies[a], bodies[b]>>)
        IN /\ pair[1].acceleration # V0
           /\ VMul(pair[1].acceleration, bodies[a].mass)
                # VNeg(VMul(pair[2].acceleration, bodies[b].mass))

\* what the static buffer may hold when a call begins: entries left by
\* earlier calls on a shorter or on a longer body list
StaleBuffers ==
    {[k \in 1..n |-> g] : n \in {Len(bodies) - 1, Len(bodies) + 1},
                          g \in {Vec(One, dNeg(One), G), Vec(NaN, NaN, NaN)}}

\* C6: determinism.  At entry to every velocityVerlet call the bodies the
\* call produces are the same whatever the buffer oldAcc holds.
C6_Determinism ==
    pc = "L224" =>
        \A oa \in StaleBuffers :
            velocityVerlet(bodies, oa).bodies
              = velocityVerlet(bodies, oldAcc).bodies

\* a call is about to run with a buffer that earlier calls have filled with
\* accelerations that are no longer the bodies'
C6_Witness ==
    /\ pc = "L224"
    /\ nsteps >= 1
    /\ Len(oldAcc) = Len(bodies)
    /\ Len(bodies) >= 2
    /\ oldAcc # Accelerations(bodies)

\* C7 as stated: applying enforceBarycenter twice gives the velocities of
\* applying it once.
C7_IdempotentExact ==
    Initialised =>
        enforceBarycenter(enforceBarycenter(bodies)) = enforceBarycenter(bodies)

\* C7 amended: for every system of n bodies, the correction that a second
\* application computes right after a first is zero to within 4n + 3
\* roundoff units of (sum of mass_i * |velocity_i|) / (total mass), the
\* velocities being those before the first application.
C7_IdempotentRounded ==
    LET n == Len(bodies)
        once == enforceBarycenter(bodies)
    IN dLeq(dMul(Norm1(Correction(once)), TotalMass(bodies, n)),
            dMul(dMul(FromInt(4 * n + 3), Roundoff), MomentumScale(bodies, n)))

\* line 211 has just corrected a system of several bodies, and a second
\* application would change a velocity
C7_Witness ==
    /\ pc = "L215"
    /\ nbary = 1
    /\ nsteps = 0
    /\ Len(bodies) >= 3
    /\ enforceBarycenter(bodies) # bodies

\* C9: fixed sub-stepping.  Every frame runs exactly 5 velocityVerlet
\* calls, whether or not the window was closed in it, and the trail and the
\* drawing get the bodies only after the fifth.
C9_FixedSubStepping ==
    /\ pc \in {"L228", "L235"} => nsteps = 5 * ticks /\ ticks >= 1
    /\ pc = "L224" => i < 5 /\ nsteps = 5 * (ticks - 1) + i
    /\ pc \in {"L215", "L217", "L272"} => nsteps = 5 * ticks
    /\ \A k \in 1..Len(bodies) :
          Len(bodies[k].trail) =
              IF pc \in {"L224", "L228"} THEN ticks - 1 ELSE ticks

\* the second frame, in which the window was closed, hands over the bodies
C9_Witness ==
    /\ pc = "L235"
    /\ ticks = 2
    /\ ~windowOpen
    /\ nsteps = 10
    /\ Len(bodies) >= 2

\* C10: the barycenter corrector runs exactly once, before the first
\* velocityVerlet call, and never after.
C10_BarycenterOnce ==
    /\ nbary <= 1
    /\ nbary = 0 => pc \in {"L210", "L211"} /\ nsteps = 0
    /\ Initialised => nbary = 1

\* the run has ended after two frames
C10_Witness ==
    /\ pc = "L272"
    /\ nsteps = 10
    /\ nbary = 1

\* C2: the old-acceleration buffer is not shared between two independent
\* systems.  However the steps of the two threads interleave, no step reads
\* an old acceleration that a step on the other system wrote, and a system
\* between two steps is in the state it reaches when stepped alone.
C2_BufferNotShared ==
    two.on =>
        /\ ~two.foreign
        /\ \A t \in {1, 2} :
              two.pc[t] = "idle" =>
                  Physics(two.bodies[t])
                    = Physics(AloneAfter(two.start[t], two.done[t]))

\* the total mass the corrector divides by is zero
Degenerate(bs) == TotalMass(bs, Len(bs)) = Zero

\* C1: on a system of total mass 0 enforceBarycenter ends in the
\* DegenerateSystem error, writes no velocity (none is NaN or infinite), and
\* no velocityVerlet call follows.
C1_DegenerateFailsFast ==
    (Degenerate(bodies) /\ nbary >= 1) =>
        /\ pc = "DegenerateSystem"
        /\ nsteps = 0
        /\ \A k \in 1..Len(bodies) :
              /\ IsFinite(bodies[k].velocity.x)
              /\ IsFinite(bodies[k].velocity.y)
              /\ IsFinite(bodies[k].velocity.z)

\* C8: a system with a body of non-positive mass, or of total mass 0, fails
\* its initialization: no velocityVerlet call is ever made on it.
C8_InvalidNeverIntegrates ==
    (Degenerate(bodies) \/ \E k \in 1..Len(bodies) : ~dLess(Zero, bodies[k].mass))
        => nsteps = 0

Masses(bs) == [k \in 1..Len(bs) |-> bs[k].mass]

\* C11: single-writer discipline.  The trail bookkeeping and the drawing of
\* a frame leave every body's mass, position, velocity and acceleration as
\* they were; a step that changes any of them is a computeAccelerations, an
\* enforceBarycenter or a velocityVerlet call; and no step changes a mass or
\* the number of bodies.
C11_SingleWriter ==
    [][ /\ pc \in {"L228", "L235"} => Physics(bodies') = Physics(bodies)
        /\ Physics(bodies') # Physics(bodies) => pc \in {"L210", "L211", "L224"}
        /\ Masses(bodies') = Masses(bodies) ]_vars

\* a frame has recorded and drawn bodies that its five steps had moved
C11_Witness ==
    /\ pc = "L215"
    /\ ticks >= 1
    /\ Len(bodies) >= 2
    /\ \A k \in 2..Len(bodies) :
          /\ Len(bodies[k].trail) = ticks
          /\ bodies[k].shape # Vector2f(Zero, Zero)
          /\ bodies[k].position.y # Zero

(***************************************************************************)
(* A two-body circular orbit, stepped for one orbital period               *)
(***************************************************************************)
\* the satellite's distance from the central mass, in AU
OrbitRadii == {Dec(2, 2), Dec(5, 2), Dec(1, 1)}

\* the satellite's mass: the Earth's and Jupiter's of main()
OrbitMasses == {Dec(300, 8), Dec(954, 6)}

MaxOrbitSteps == 64

\* T = 2 pi sqrt(r^3 / G)
OrbitPeriod(r) ==
    dMul(dMul(FromInt(2), M_PI), dSqrt(dDiv(dMul(dMul(r, r), r), G)))

\* 0.5 m |v|^2
Kinetic(b) ==
    dMul(dMul(Half, b.mass),
         dAdd(dAdd(dMul(b.velocity.x, b.velocity.x),
                   dMul(b.velocity.y, b.velocity.y)),
              dMul(b.velocity.z, b.velocity.z)))

\* -G m_i m_j / |r_j - r_i|
Potential(bi, bj) ==
    dNeg(dDiv(dMul(dMul(G, bi.mass), bj.mass),
              norm(VSub(bj.position, bi.position))))

\* total mechanical energy of a system of two bodies
Energy(bs) ==
    dAdd(dAdd(Kinetic(bs[1]), Kinetic(bs[2])), Potential(bs[1], bs[2]))

InitOrbit ==
    /\ \E r \in OrbitRadii, m \in OrbitMasses :
          /\ bodies = Prepared(System(One, << <<m, r>> >>, V0))
          /\ orbit = [on |-> TRUE, radius |-> r, period |-> OrbitPeriod(r),
                      e0 |-> Energy(Prepared(System(One, << <<m, r>> >>, V0)))]
    /\ oldAcc = <<>>
    /\ pc = "orbit"
    /\ i = 0
    /\ windowOpen = FALSE
    /\ CENTER = Vector2f(Zero, Zero)
    /\ SCALE = Zero
    /\ nsteps = 0
    /\ nbary = 1
    /\ ticks = 0
    /\ two = TwoOff
    /\ hoard = HoardOff

\* one velocityVerlet call, while the orbit's first period lasts
OrbitStep ==
    /\ orbit.on
    /\ nsteps < MaxOrbitSteps
    /\ dLeq(dMul(FromInt(nsteps + 1), dt), orbit.period)
    /\ LET st == velocityVerlet(bodies, oldAcc)
       IN bodies' = st.bodies /\ oldAcc' = st.oldAcc
    /\ nsteps' = nsteps + 1
    /\ UNCHANGED <<pc, i, windowOpen, CENTER, SCALE, nbary, ticks, two,
                   orbit, hoard>>

NextOrbit == OrbitStep

SpecOrbit == InitOrbit /\ [][NextOrbit]_vars

\* the energy is within 1% of the energy the orbit began with
EnergyWithinOnePercent ==
    dLeq(dAbs(dSub(Energy(bodies), orbit.e0)), dMul(Dec(1, 2), dAbs(orbit.e0)))

MovedTo(bs) ==
    [k \in 1..Len(bs) |->
        [bs[k] EXCEPT !.position =
            VAdd(VAdd(bs[k].position, VMul(bs[k].velocity, dt)),
                 VMul(bs[k].acceleration, dMul(dMul(Half, dt), dt)))]]

\* C13: one velocityVerlet call gives every body the position
\* old position + old velocity * dt + old acceleration * (0.5 * dt * dt),
\* from that body's pre-step values only, the acceleration that
\* computeAccelerations yields from all the new positions, and the velocity
\* old velocity + (pre-step acceleration + new acceleration) * (0.5 * dt).
C13_VerletStep ==
    [][ pc = "L224" =>
          LET moved == computeAccelerations(MovedTo(bodies))
          IN /\ Len(bodies') = Len(bodies)
             /\ \A k \in 1..Len(bodies) :
                   /\ bodies'[k].position = moved[k].position
                   /\ bodies'[k].acceleration = moved[k].acceleration
                   /\ bodies'[k].velocity =
                         VAdd(bodies[k].velocity,
                              VMul(VAdd(bodies[k].acceleration,
                                        moved[k].acceleration),
                                   dMul(Half, dt))) ]_vars

\* a call has run on three or more moving bodies, each with an
\* acceleration of its own, and left its old accelerations in the buffer
C13_Witness ==
    /\ pc = "L224"
    /\ nsteps >= 2
    /\ Len(bodies) >= 3
    /\ Len(oldAcc) = Len(bodies)
    /\ \A k \in 1..Len(bodies) :
          /\ bodies[k].acceleration # V0
          /\ bodies[k].velocity # V0
          /\ oldAcc[k] # bodies[k].acceleration

VFinite(v) == IsFinite(v.x) /\ IsFinite(v.y) /\ IsFinite(v.z)

\* two bodies at one and the same position
Coincident(bi, bj) == bi.position = bj.position

\* every position and every mass of the system is a number
FiniteSystem(bs) ==
    \A k \in 1..Len(bs) : VFinite(bs[k].position) /\ IsFinite(bs[k].mass)

\* C14: coincident bodies are not an error.  For every system of bodies with
\* numbers for positions and masses, systems with massless planets, the
\* empty system and bodies at identical positions included, the distance computeAccelerations divides
\* by is at least EPS > 0 for every pair, every acceleration it yields is
\* finite, and a pair at zero separation, alone in computeAccelerations,
\* gets zero acceleration on both bodies.
C14_CoincidentBodies ==
    FiniteSystem(bodies) =>
    /\ dLess(Zero, EPS)
    /\ \A k \in 1..Len(bodies) :
          VFinite(computeAccelerations(bodies)[k].acceleration)
    /\ \A a \in 1..Len(bodies) : \A b \in (a + 1)..Len(bodies) :
          /\ dLeq(EPS, dAdd(norm(VSub(bodies[b].position, bodies[a].position)),
                            EPS))
          /\ Coincident(bodies[a], bodies[b]) =>
                LET pair == computeAccelerations(<<bodies[a], bodies[b]>>)
                IN pair[1].acceleration = V0 /\ pair[2].acceleration = V0

\* two planets have travelled five steps together at one position, under
\* the accelerations that computeAccelerations gave them
C14_Witness ==
    /\ pc = "L228"
    /\ FiniteSystem(bodies)
    /\ nsteps >= 5
    /\ \E a \in 2..Len(bodies) : \E b \in (a + 1)..Len(bodies) :
          /\ Coincident(bodies[a], bodies[b])
          /\ bodies[a].mass # bodies[b].mass
          /\ bodies[a].acceleration # V0
          /\ bodies[a].position.y # Zero

\* the system without its body k
Without(bs, k) == [n \in 1..(Len(bs) - 1) |-> IF n < k THEN bs[n] ELSE bs[n + 1]]

\* where body j of the system stands once body k is taken out
IndexWithout(j, k) == IF j < k THEN j ELSE j - 1

\* masses a body may be given in the place of none
PositiveMasses == {Dec(300, 8), One}

\* C15: in computeAccelerations a body of mass zero adds nothing to the
\* acceleration of any other body (each other body gets what it gets in the
\* system without the massless body), and the massless body itself gets the
\* acceleration that a body of positive mass at its position gets from the
\* others; the results are numbers, nothing is raised.
C15_ZeroMassBody ==
    FiniteSystem(bodies) =>
    \A k \in 1..Len(bodies) :
        bodies[k].mass = Zero =>
            LET full == computeAccelerations(bodies)
                rest == computeAccelerations(Without(bodies, k))
            IN /\ \A j \in (1..Len(bodies)) \ {k} :
                     full[j].acceleration = rest[IndexWithout(j, k)].acceleration
               /\ \A m \in PositiveMasses :
                     computeAccelerations(
                         [bodies EXCEPT ![k].mass = m])[k].acceleration
                       = full[k].acceleration
               /\ VFinite(full[k].acceleration)

\* a massless planet between the Sun and a heavy planet, pulled by both,
\* after five steps of the integrator
C15_Witness ==
    /\ pc = "L228"
    /\ nsteps >= 5
    /\ FiniteSystem(bodies)
    /\ Len(bodies) = 3
    /\ bodies[1].mass = One
    /\ bodies[2].mass = Zero
    /\ bodies[3].mass # Zero
    /\ bodies[2].position # bodies[3].position
    /\ bodies[2].acceleration # V0
    /\ bodies[3].acceleration # V0
    /\ bodies[2].acceleration = computeAccelerations(bodies)[2].acceleration

(***************************************************************************)
(* HOARD (src/unnamed/part_000).  main() starts idleGain on a thread of    *)
(* its own (line 208) and both work on the one Player p, with no lock and  *)
(* no atomic: p.units += x and p.units -= x are a read, an operation and a *)
(* write of p.units, and the other thread may run between the read and the *)
(* write.  Amounts are whole numbers of 1/4000 unit, in which every value  *)
(* below is exact; idleBonus counts steps of 0.05 and doubleInvestChance   *)
(* steps of 0.0005.  The ledger fields start, gained and spent are not in  *)
(* the program: they record what was added and what was deducted.          *)
(***************************************************************************)
Units(n) == n * 4000

\* iterations of idleGain's loop and choices at main()'s menu
MaxGains == 3
MaxChoices == 3

\* p.units after loadGame (line 203), or 0 (line 204)
StartUnits == {Units(0), Units(6000), Units(9000)}

\* amounts typed at "Amount: ", in units
Amounts == {1000, 3000}

\* lines 61-62: rate * (1.0 + min(idleBonus, 1.0))
IdleDelta(pl) == (pl.rate * (20 + Min(pl.idleBonus, 20))) \div 20

\* lines 74-75: (amount * amount) / (amount + 1000.0) * 0.001
RateIncrease(a) == (4 * a * a) \div (a + 1000)

InitHoard ==
    /\ \E u \in StartUnits :
          hoard = [on |-> TRUE,
                   p |-> [units |-> u, rate |-> Units(1), idleBonus |-> 0,
                          doubleInvestChance |-> 0],
                   idle |-> "L60", idleSum |-> 0, idleDelta |-> 0,
                   main |-> "menu", seen |-> 0, amount |-> 0, sum |-> 0,
                   start |-> u, gained |-> 0, spent |-> 0,
                   ngain |-> 0, nchoice |-> 0]
    /\ bodies = <<>>
    /\ oldAcc = <<>>
    /\ pc = "hoard"
    /\ i = 0
    /\ windowOpen = FALSE
    /\ CENTER = Vector2f(Zero, Zero)
    /\ SCALE = Zero
    /\ nsteps = 0
    /\ nbary = 0
    /\ ticks = 0
    /\ two = TwoOff
    /\ orbit = OrbitOff

HoardOnly == UNCHANGED <<bodies, oldAcc, pc, i, windowOpen, CENTER, SCALE,
                         nsteps, nbary, ticks, two, orbit>>

\* idleGain, lines 60-62: having slept, read p and add
IdleRead ==
    /\ hoard.on /\ hoard.idle = "L60" /\ hoard.main # "exit"
    /\ hoard.ngain < MaxGains
    /\ hoard' = [hoard EXCEPT !.idle = "L62",
                              !.idleDelta = IdleDelta(hoard.p),
                              !.idleSum = hoard.p.units + IdleDelta(hoard.p)]
    /\ HoardOnly

\* idleGain, line 62: write the sum to p.units
IdleWrite ==
    /\ hoard.on /\ hoard.idle = "L62" /\ hoard.main # "exit"
    /\ hoard' = [hoard EXCEPT !.idle = "L60",
                              !.p.units = hoard.idleSum,
                              !.gained = @ + hoard.idleDelta,
                              !.ngain = @ + 1]
    /\ HoardOnly

AtMenu == hoard.on /\ hoard.main = "menu" /\ hoard.nchoice < MaxChoices

\* main, choice 1, and invest lines 67-70: the test of p.units
InvestCheck ==
    /\ AtMenu
    /\ \E a \in Amounts :
          hoard' = [hoard EXCEPT
                      !.nchoice = @ + 1,
                      !.amount = Units(a),
                      !.seen = hoard.p.units,
                      !.main = IF hoard.p.units < Units(a) THEN "menu"
                               ELSE "L72"]
    /\ HoardOnly

\* the read of a deduction (lines 72, 152, 157): p.units is read again, or
\* the value the test has read is used, as the build has it
AfterRead(next) ==
    {[hoard EXCEPT !.main = next, !.sum = u - hoard.amount] :
        u \in {hoard.p.units, hoard.seen}}

\* invest, line 72: read p.units and subtract
InvestRead ==
    /\ hoard.on /\ hoard.main = "L72"
    /\ hoard' \in AfterRead("L72w")
    /\ HoardOnly

\* invest, lines 72-83: write p.units, then raise the rate, twice as much
\* if the roll is below min(doubleInvestChance, 0.05)
InvestWrite ==
    /\ hoard.on /\ hoard.main = "L72w"
    /\ \E lucky \in {FALSE} \cup {hoard.p.doubleInvestChance > 0} :
          hoard' = [hoard EXCEPT
                      !.main = "menu",
                      !.p.units = hoard.sum,
                      !.spent = @ + hoard.amount,
                      !.p.rate = @ + (IF lucky THEN 2 ELSE 1)
                                       * RateIncrease(hoard.amount \div 4000)]
    /\ HoardOnly

\* main, choice 3, and unlockMenu lines 141-157: the choice and the tests
UnlockCheck ==
    /\ AtMenu
    /\ \E c \in 0..2 :
          hoard' = [hoard EXCEPT
                      !.nchoice = @ + 1,
                      !.seen = hoard.p.units,
                      !.amount = IF c = 1 THEN Units(5000) ELSE Units(8000),
                      !.main =
                          IF c = 1 /\ hoard.p.idleBonus < 20
                                   /\ hoard.p.units >= Units(5000)
                          THEN "L152"
                          ELSE IF c = 2 /\ hoard.p.doubleInvestChance < 100
                                        /\ hoard.p.units >= Units(8000)
                          THEN "L157"
                          ELSE "menu"]
    /\ HoardOnly

\* unlockMenu, lines 152 and 157: read p.units and subtract
UnlockRead ==
    /\ hoard.on /\ hoard.main \in {"L152", "L157"}
    /\ hoard' \in AfterRead(IF hoard.main = "L152" THEN "L152w" ELSE "L157w")
    /\ HoardOnly

\* unlockMenu, lines 152-153 and 157-158: write p.units and the upgrade
UnlockWrite ==
    /\ hoard.on /\ hoard.main \in {"L152w", "L157w"}
    /\ hoard' = [hoard EXCEPT
                    !.main = "menu",
                    !.p.units = hoard.sum,
                    !.spent = @ + hoard.amount,
                    !.p.idleBonus = IF hoard.main = "L152w" THEN @ + 1 ELSE @,
                    !.p.doubleInvestChance =
                        IF hoard.main = "L157w" THEN @ + 1 ELSE @]
    /\ HoardOnly

\* main, choice 2 or an invalid choice: p is left alone
OtherChoice ==
    /\ AtMenu
    /\ hoard' = [hoard EXCEPT !.nchoice = @ + 1]
    /\ HoardOnly

\* main, choice 4, lines 240-252: save, leave the loop and return, which
\* ends the detached thread with the process
SaveAndExit ==
    /\ hoard.on /\ hoard.main = "menu"
    /\ hoard' = [hoard EXCEPT !.main = "exit"]
    /\ HoardOnly

NextHoard ==
    \/ IdleRead
    \/ IdleWrite
    \/ InvestCheck
    \/ InvestRead
    \/ InvestWrite
    \/ UnlockCheck
    \/ UnlockRead
    \/ UnlockWrite
    \/ OtherChoice
    \/ SaveAndExit

SpecHoard == InitHoard /\ [][NextHoard]_vars

\* neither thread is between its read and its write of p.units
Settled == hoard.idle = "L60" /\ hoard.main \in {"menu", "exit"}

\* C16: idle gains of the background thread and the deductions of invest
\* and unlockMenu on the main thread lose no update: whenever neither
\* thread is inside an update, p.units is the starting units plus every
\* idle gain made minus every amount deducted, so that no deduction made
\* is undone by an idle gain and no gain by a deduction.
C16_NoLostUpdate ==
    (hoard.on /\ Settled) =>
        hoard.p.units = hoard.start + hoard.gained - hoard.spent

====
